---- MODULE Spec2Model ----
(***************************************************************************)
(* raktar: the publish handler (src/application/api/publish.rs) and the    *)
(* error responder (src/application/error.rs).                             *)
(*                                                                         *)
(* A request is one run of publish_crate.  It has two suspension points,   *)
(* the conditional put_item on the DynamoDB table and store_crate on the   *)
(* crate storage, so it is modelled by three steps: the synchronous decode *)
(* of the body (lines 39-56), the registration write with the match on its *)
(* result (lines 58-71) and the crate write with the return (lines 72-78). *)
(* Requests interleave at the suspension points.                           *)
(***************************************************************************)
EXTENDS Integers, Sequences, FiniteSets, TLC

\* ------------------------------------------------------------------ bounds

\* Number of publish requests in flight.
NumRequests == 2

\* Longest crate archive a request submits.
MaxArchiveLen == 1

Requests == 1..NumRequests

\* ----------------------------------------------------------- byte buffers

\* The bytes archives are made of.
ArchiveBytes == {97}

RECURSIVE SeqsUpTo(_, _)
SeqsUpTo(S, n) ==
    IF n = 0 THEN {<<>>}
    ELSE LET shorter == SeqsUpTo(S, n - 1)
         IN shorter \cup {Append(s, b) : s \in {t \in shorter : Len(t) = n - 1}, b \in S}

\* byteorder's LittleEndian u32: least significant byte first.
LE32(n) ==
    << n % 256, (n \div 256) % 256, (n \div 65536) % 256, (n \div 16777216) % 256 >>

\* cursor.read_u32::<LittleEndian>(): four bytes at the cursor, or an error
\* when fewer than four remain.
read_u32(body, pos) ==
    IF pos + 4 > Len(body)
    THEN [ok |-> FALSE, value |-> 0, pos |-> pos]
    ELSE [ok |-> TRUE,
          value |-> body[pos + 1] + 256 * body[pos + 2]
                    + 65536 * body[pos + 3] + 16777216 * body[pos + 4],
          pos |-> pos + 4]

\* A read that starts one byte before the cursor.
read_exact_off_by_one(body, pos, n) ==
    IF n > Len(body) - pos
    THEN [ok |-> FALSE, buf |-> <<>>, pos |-> pos]
    ELSE [ok |-> TRUE, buf |-> SubSeq(body, pos, pos + n - 1), pos |-> pos + n]

\* cursor.read_exact(&mut buf) with buf of n bytes: the next n bytes, or an
\* error when fewer than n remain.
read_exact(body, pos, n) ==
    IF n > Len(body) - pos
    THEN [ok |-> FALSE, buf |-> <<>>, pos |-> pos]
    ELSE [ok |-> TRUE, buf |-> SubSeq(body, pos + 1, pos + n), pos |-> pos + n]

\* ------------------------------------------------------------- metadata

\* The metadata document is reduced to its two required fields, one byte
\* each: the crate name and the version.
NameBytes == {100}
VersBytes == {49, 50}

\* serde_json::from_slice::<Metadata>: a document with both required fields
\* parses, anything else is an error.
from_slice(metadata_bytes) ==
    IF /\ Len(metadata_bytes) = 2
       /\ metadata_bytes[1] \in NameBytes
       /\ metadata_bytes[2] \in VersBytes
    THEN [ok |-> TRUE, name |-> metadata_bytes[1], vers |-> metadata_bytes[2]]
    ELSE [ok |-> FALSE, name |-> 0, vers |-> 0]

\* Sha256::digest(..).encode_hex(): deterministic and, on the buffers of the
\* model, free of collisions (base-257 positional value of the bytes).
RECURSIVE Sha256Hex(_)
Sha256Hex(bytes) ==
    IF bytes = <<>> THEN 0
    ELSE 257 * Sha256Hex(SubSeq(bytes, 1, Len(bytes) - 1)) + bytes[Len(bytes)] + 1

\* PackageInfo::from_metadata(metadata, &checksum): name and version copied,
\* checksum attached.
from_metadata(metadata, checksum) ==
    [name |-> metadata.name, vers |-> metadata.vers, cksum |-> checksum]

\* --------------------------------------------------------- frame decoding

\* What lines 39-56 leave behind: either the panic of the first unwrap that
\* fails, or the locals the rest of the handler uses.
Panicked(site) ==
    [ok |-> FALSE, panic |-> site, metadata_bytes |-> <<>>, crate_bytes |-> <<>>,
     crate_name |-> 0, vers |-> 0, checksum |-> 0]

\* The decode with the checksum taken over the metadata buffer.
DecodeBody_checksum_of_metadata(body) ==
    LET metadata_length == read_u32(body, 0) IN
    IF ~metadata_length.ok THEN Panicked("read_u32 metadata_length") ELSE
    LET metadata_bytes == read_exact(body, metadata_length.pos, metadata_length.value) IN
    IF ~metadata_bytes.ok THEN Panicked("read_exact metadata_bytes") ELSE
    LET metadata == from_slice(metadata_bytes.buf) IN
    IF ~metadata.ok THEN Panicked("from_slice metadata") ELSE
    LET crate_length == read_u32(body, metadata_bytes.pos) IN
    IF ~crate_length.ok THEN Panicked("read_u32 crate_length") ELSE
    LET crate_bytes == read_exact(body, crate_length.pos, crate_length.value) IN
    IF ~crate_bytes.ok THEN Panicked("read_exact crate_bytes") ELSE
    [ok |-> TRUE, panic |-> "none",
     metadata_bytes |-> metadata_bytes.buf, crate_bytes |-> crate_bytes.buf,
     crate_name |-> metadata.name, vers |-> metadata.vers,
     checksum |-> Sha256Hex(metadata_bytes.buf)]

\* The decode that rejects a body with bytes left after the archive.
DecodeBody_strict(body) ==
    LET metadata_length == read_u32(body, 0) IN
    IF ~metadata_length.ok THEN Panicked("read_u32 metadata_length") ELSE
    LET metadata_bytes == read_exact(body, metadata_length.pos, metadata_length.value) IN
    IF ~metadata_bytes.ok THEN Panicked("read_exact metadata_bytes") ELSE
    LET metadata == from_slice(metadata_bytes.buf) IN
    IF ~metadata.ok THEN Panicked("from_slice metadata") ELSE
    LET crate_length == read_u32(body, metadata_bytes.pos) IN
    IF ~crate_length.ok THEN Panicked("read_u32 crate_length") ELSE
    LET crate_bytes == read_exact(body, crate_length.pos, crate_length.value) IN
    IF ~crate_bytes.ok THEN Panicked("read_exact crate_bytes") ELSE
    IF crate_bytes.pos # Len(body) THEN Panicked("trailing bytes") ELSE
    [ok |-> TRUE, panic |-> "none",
     metadata_bytes |-> metadata_bytes.buf, crate_bytes |-> crate_bytes.buf,
     crate_name |-> metadata.name, vers |-> metadata.vers,
     checksum |-> Sha256Hex(crate_bytes.buf)]

DecodeBody(body) ==
    LET metadata_length == read_u32(body, 0) IN
    IF ~metadata_length.ok THEN Panicked("read_u32 metadata_length") ELSE
    LET metadata_bytes == read_exact(body, metadata_length.pos, metadata_length.value) IN
    IF ~metadata_bytes.ok THEN Panicked("read_exact metadata_bytes") ELSE
    LET metadata == from_slice(metadata_bytes.buf) IN
    IF ~metadata.ok THEN Panicked("from_slice metadata") ELSE
    LET crate_length == read_u32(body, metadata_bytes.pos) IN
    IF ~crate_length.ok THEN Panicked("read_u32 crate_length") ELSE
    LET crate_bytes == read_exact(body, crate_length.pos, crate_length.value) IN
    IF ~crate_bytes.ok THEN Panicked("read_exact crate_bytes") ELSE
    [ok |-> TRUE, panic |-> "none",
     metadata_bytes |-> metadata_bytes.buf, crate_bytes |-> crate_bytes.buf,
     crate_name |-> metadata.name, vers |-> metadata.vers,
     checksum |-> Sha256Hex(crate_bytes.buf)]

\* ------------------------------------------------------------ the inputs

\* The request body layout: [u32 LE len][metadata][u32 LE len][archive].
EncodeFrame(metadata_bytes, crate_bytes) ==
    LE32(Len(metadata_bytes)) \o metadata_bytes \o LE32(Len(crate_bytes)) \o crate_bytes

Archives == SeqsUpTo(ArchiveBytes, MaxArchiveLen)

GoodMetadata == {<<n, v>> : n \in NameBytes, v \in VersBytes}

\* The empty document and a document without the version field.
BadMetadata == {<<>>, <<100>>}

GoodFrames == {EncodeFrame(m, a) : m \in GoodMetadata, a \in Archives}

LongestArchive == CHOOSE a \in Archives : Len(a) = MaxArchiveLen

\* Every proper prefix of one good frame: bodies that end inside a length
\* field or inside a segment.
TruncatedFrames ==
    LET f == EncodeFrame(<<100, 49>>, LongestArchive)
    IN {SubSeq(f, 1, n) : n \in 0..(Len(f) - 1)}

\* A declared metadata length far beyond the body (2^31 - 1, the largest the
\* checker's integers hold).
OverlongFrames == {<<255, 255, 255, 127, 100, 49>>}

BadMetadataFrames == {EncodeFrame(m, <<>>) : m \in BadMetadata}

\* A good frame followed by one more byte.
TrailingFrames == {EncodeFrame(<<100, 50>>, <<>>) \o <<0>>}

Bodies ==
    GoodFrames \cup TruncatedFrames \cup OverlongFrames
        \cup BadMetadataFrames \cup TrailingFrames

\* ------------------------------------------------------------- the stores

\* The DynamoDB table: a set of items.  pk and sk are the primary key; two
\* items never share it.
ItemOf(package_info) ==
    [pk |-> package_info.name, sk |-> package_info.vers, info |-> package_info]

ItemsAt(tbl, pk, sk) == {it \in tbl : it.pk = pk /\ it.sk = sk}

\* The one request store_package_info builds and sends (lines 86-93).
PutItemRequest(package_info) ==
    [op |-> "PutItem", condition |-> "attribute_not_exists(sk)",
     pk |-> package_info.name, sk |-> package_info.vers]

\* What the awaited put_item resolves to.
PutOk == "Ok"
ConditionalCheckFailed == "ConditionalCheckFailedException"
DispatchFailure == "DispatchFailure"

\* PutItem without a condition expression: the item replaces the one stored
\* under its key.
put_item_unconditional(tbl, package_info, available) ==
    IF ~available
    THEN [result |-> DispatchFailure, table |-> tbl]
    ELSE [result |-> PutOk,
          table |-> (tbl \ ItemsAt(tbl, package_info.name, package_info.vers))
                      \cup {ItemOf(package_info)}]

\* store_package_info: one PutItem with the condition attribute_not_exists(sk).
\* The store evaluates the condition and writes in one step; an item stored
\* under the key has an sk, so the condition fails exactly when the key is
\* occupied.  When the store cannot be reached nothing is written.
store_package_info(tbl, package_info, available) ==
    IF ~available
    THEN [result |-> DispatchFailure, table |-> tbl]
    ELSE IF ItemsAt(tbl, package_info.name, package_info.vers) # {}
    THEN [result |-> ConditionalCheckFailed, table |-> tbl]
    ELSE [result |-> PutOk, table |-> tbl \cup {ItemOf(package_info)}]

\* CrateStorage::store_crate: the bytes are put under (name, version).
store_crate(stg, crate_name, vers, crate_bytes) ==
    (<<crate_name, vers>> :> crate_bytes) @@ stg

\* ----------------------------------------------------------- the responses

OK == 200
BAD_REQUEST == 400
INTERNAL_SERVER_ERROR == 500

NoDetail == [text |-> "", crate_name |-> 0, version |-> 0]

NoResponse == [kind |-> "none", warnings |-> <<>>, detail |-> NoDetail]

PublishSuccess(warnings) ==
    [kind |-> "PublishSuccess", warnings |-> warnings, detail |-> NoDetail]

PublishFailure(detail) ==
    [kind |-> "PublishFailure", warnings |-> <<>>, detail |-> detail]

\* format!("{}", err) of the error put_item resolved to: the SDK's Display of
\* an SdkError names the error's variant and nothing of the request.
SdkErrorDisplay(err) ==
    [text |-> IF err = ConditionalCheckFailed THEN "service error" ELSE "dispatch failure",
     crate_name |-> 0, version |-> 0]

\* Display of AppError::DuplicateCrateVersion { crate_name, version }.
DuplicateCrateVersionDisplay(crate_name, version) ==
    [text |-> "version {version} for {crate_name} already exists",
     crate_name |-> crate_name, version |-> version]

\* The match on store_package_info's result, lines 58-71.
MatchPutResult(result) ==
    IF result = PutOk
    THEN [status_code |-> OK, response |-> PublishSuccess(<<>>)]
    ELSE [status_code |-> BAD_REQUEST,
          response |-> PublishFailure(SdkErrorDisplay(result))]

\* -------------------------------------------------------- the error type

NOT_FOUND == 404

\* The values of AppError (error.rs:11-29).  crate_name and version are the
\* fields of the variants that have them, message the wrapped error's text.
NoAppError == [variant |-> "none", crate_name |-> 0, version |-> 0, message |-> ""]

NonExistentPackageInfo(crate_name) ==
    [variant |-> "NonExistentPackageInfo", crate_name |-> crate_name,
     version |-> 0, message |-> ""]

NonExistentCrateVersion(crate_name, version) ==
    [variant |-> "NonExistentCrateVersion", crate_name |-> crate_name,
     version |-> version, message |-> ""]

DuplicateCrateVersion(crate_name, version) ==
    [variant |-> "DuplicateCrateVersion", crate_name |-> crate_name,
     version |-> version, message |-> ""]

Anyhow(message) ==
    [variant |-> "Anyhow", crate_name |-> 0, version |-> 0, message |-> message]

Other(message) ==
    [variant |-> "Other", crate_name |-> 0, version |-> 0, message |-> message]

\* The texts of the store driver's and the serializer's errors.
SdkErrorMessages == {"service error", "dispatch failure", "request has timed out"}
SerdeDynamoMessages == {"expected a map", "unsupported type"}

\* impl From<SdkError<E>> for AppError and impl From<serde_dynamo::Error> for
\* AppError: the text is logged and kept inside Other.
from_error(error_message) == Other(error_message)

\* internal_error(): anyhow!("Internal Server Error").into().
internal_error == Anyhow("Internal Server Error")

\* self.to_string(): the #[error(..)] format of each variant; Anyhow is
\* transparent and shows the wrapped error's text.
AppErrorDisplay(err) ==
    CASE err.variant = "NonExistentPackageInfo" ->
            [text |-> "package info for {0} does not exist",
             crate_name |-> err.crate_name, version |-> 0]
      [] err.variant = "NonExistentCrateVersion" ->
            [text |-> "version {version} for {crate_name} does not exist",
             crate_name |-> err.crate_name, version |-> err.version]
      [] err.variant = "DuplicateCrateVersion" ->
            DuplicateCrateVersionDisplay(err.crate_name, err.version)
      [] err.variant = "Anyhow" ->
            [text |-> err.message, crate_name |-> 0, version |-> 0]
      [] OTHER ->
            [text |-> "unexpected error", crate_name |-> 0, version |-> 0]

NoAppResponse == [status_code |-> 0, payload |-> [errors |-> <<>>]]

\* The responder with the DuplicateCrateVersion arm left to the server-error
\* arms.
into_response_duplicate_as_internal(err) ==
    [status_code |->
        CASE err.variant \in {"NonExistentPackageInfo", "NonExistentCrateVersion"} -> NOT_FOUND
          [] OTHER -> INTERNAL_SERVER_ERROR,
     payload |-> [errors |-> << [detail |-> AppErrorDisplay(err)] >>]]

\* impl IntoResponse for AppError (error.rs:31-45).
into_response(err) ==
    [status_code |->
        CASE err.variant = "NonExistentPackageInfo" -> NOT_FOUND
          [] err.variant = "NonExistentCrateVersion" -> NOT_FOUND
          [] err.variant = "DuplicateCrateVersion" -> BAD_REQUEST
          [] err.variant = "Anyhow" -> INTERNAL_SERVER_ERROR
          [] err.variant = "Other" -> INTERNAL_SERVER_ERROR,
     payload |-> [errors |-> << [detail |-> AppErrorDisplay(err)] >>]]

\* ---------------------------------------------------------------- state

VARIABLES
    pc,           \* where each request is in publish_crate
    body,         \* the body each request was called with
    put_result,   \* what store_package_info returned to it
    status_code,  \* its local status_code
    response,     \* its local response
    store_result, \* what store_crate returned to it
    table,        \* the registration store
    storage,      \* the crate storage: (name, version) -> bytes
    db_ops,       \* the operations each request sent to the registration store
    app_error,    \* the AppError a handler ended with, per request
    app_response  \* the response the responder made of it

publish_vars ==
    <<pc, body, put_result, status_code, response, store_result, table, storage, db_ops>>

responder_vars == <<app_error, app_response>>

vars == <<publish_vars, responder_vars>>

\* The shape of the state.
TypeOK ==
    /\ pc \in [Requests -> {"idle", "put_item", "store_crate", "done", "panicked"}]
    /\ body \in [Requests -> Bodies \cup {<<>>}]
    /\ put_result \in [Requests -> {"none", PutOk, ConditionalCheckFailed, DispatchFailure}]
    /\ status_code \in [Requests -> {0, OK, BAD_REQUEST}]
    /\ \A r \in Requests : response[r].kind \in {"none", "PublishSuccess", "PublishFailure"}
    /\ store_result \in [Requests -> {"none", "Ok", "Err"}]
    /\ \A it \in table : it = ItemOf(it.info)
    /\ \A k \in DOMAIN storage : storage[k] \in Archives
    /\ \A r \in Requests : \A i \in DOMAIN db_ops[r] : db_ops[r][i].op \in {"PutItem"}
    /\ \A r \in Requests :
          app_error[r].variant \in {"none", "NonExistentPackageInfo", "NonExistentCrateVersion",
                                    "DuplicateCrateVersion", "Anyhow", "Other"}
    /\ \A r \in Requests :
          app_response[r].status_code \in {0, BAD_REQUEST, NOT_FOUND, INTERNAL_SERVER_ERROR}

Init ==
    /\ pc = [r \in Requests |-> "idle"]
    /\ body = [r \in Requests |-> <<>>]
    /\ put_result = [r \in Requests |-> "none"]
    /\ status_code = [r \in Requests |-> 0]
    /\ response = [r \in Requests |-> NoResponse]
    /\ store_result = [r \in Requests |-> "none"]
    /\ table = {}
    /\ storage = <<>>
    /\ db_ops = [r \in Requests |-> <<>>]
    /\ app_error = [r \in Requests |-> NoAppError]
    /\ app_response = [r \in Requests |-> NoAppResponse]

\* The locals of request r after line 56.
Decoded(r) == DecodeBody(body[r])

PackageInfoOf(r) ==
    from_metadata([name |-> Decoded(r).crate_name, vers |-> Decoded(r).vers],
                  Decoded(r).checksum)

\* A decode that carries on with default values where an unwrap fails.
publish_crate_decode_lenient(r) ==
    /\ pc[r] = "idle"
    /\ \E b \in Bodies :
         /\ body' = [body EXCEPT ![r] = b]
         /\ pc' = [pc EXCEPT ![r] = "put_item"]
    /\ UNCHANGED <<put_result, status_code, response, store_result, table, storage, db_ops, responder_vars>>

\* Lines 39-56: the handler is called with a body and decodes it.  Every
\* failure is an unwrap on an Err: the task panics and the caller gets no
\* response.
publish_crate_decode(r) ==
    /\ pc[r] = "idle"
    /\ \E b \in Bodies :
         /\ body' = [body EXCEPT ![r] = b]
         /\ pc' = [pc EXCEPT ![r] = IF DecodeBody(b).ok THEN "put_item" ELSE "panicked"]
    /\ UNCHANGED <<put_result, status_code, response, store_result, table, storage, db_ops, responder_vars>>

\* A registration that first reads the key and then, in a second operation,
\* writes without a condition when the read found nothing.
publish_crate_register_check_then_act(r) ==
    \/ /\ pc[r] = "put_item"
       /\ db_ops' = [db_ops EXCEPT ![r] = Append(@,
              [op |-> "GetItem", condition |-> "none",
               pk |-> PackageInfoOf(r).name, sk |-> PackageInfoOf(r).vers])]
       /\ pc' = [pc EXCEPT ![r] =
              IF ItemsAt(table, PackageInfoOf(r).name, PackageInfoOf(r).vers) = {}
              THEN "put_item_absent" ELSE "put_item_present"]
       /\ UNCHANGED <<body, put_result, status_code, response, store_result, table, storage, responder_vars>>
    \/ /\ pc[r] \in {"put_item_absent", "put_item_present"}
       /\ LET out == IF pc[r] = "put_item_absent"
                     THEN put_item_unconditional(table, PackageInfoOf(r), TRUE)
                     ELSE [result |-> ConditionalCheckFailed, table |-> table]
              arm == MatchPutResult(out.result)
          IN /\ table' = out.table
             /\ put_result' = [put_result EXCEPT ![r] = out.result]
             /\ status_code' = [status_code EXCEPT ![r] = arm.status_code]
             /\ response' = [response EXCEPT ![r] = arm.response]
       /\ db_ops' = [db_ops EXCEPT ![r] =
              IF pc[r] = "put_item_absent"
              THEN Append(@, [op |-> "PutItem", condition |-> "none",
                              pk |-> PackageInfoOf(r).name, sk |-> PackageInfoOf(r).vers])
              ELSE @]
       /\ pc' = [pc EXCEPT ![r] = "store_crate"]
       /\ UNCHANGED <<body, store_result, storage, responder_vars>>

\* Lines 58-71: the registration write and the match on its result.
publish_crate_register(r) ==
    /\ pc[r] = "put_item"
    /\ \E available \in BOOLEAN :
         LET out == store_package_info(table, PackageInfoOf(r), available)
             arm == MatchPutResult(out.result)
         IN /\ table' = out.table
            /\ put_result' = [put_result EXCEPT ![r] = out.result]
            /\ status_code' = [status_code EXCEPT ![r] = arm.status_code]
            /\ response' = [response EXCEPT ![r] = arm.response]
    /\ db_ops' = [db_ops EXCEPT ![r] = Append(@, PutItemRequest(PackageInfoOf(r)))]
    /\ pc' = [pc EXCEPT ![r] = "store_crate"]
    /\ UNCHANGED <<body, store_result, storage, responder_vars>>

\* A crate write that compensates its failure by deleting the registration.
publish_crate_store_rollback(r) ==
    /\ pc[r] = "store_crate"
    /\ \E stored \in BOOLEAN :
         IF stored
         THEN /\ storage' = store_crate(storage, Decoded(r).crate_name,
                                        Decoded(r).vers, Decoded(r).crate_bytes)
              /\ store_result' = [store_result EXCEPT ![r] = "Ok"]
              /\ pc' = [pc EXCEPT ![r] = "done"]
              /\ table' = table
         ELSE /\ storage' = storage
              /\ store_result' = [store_result EXCEPT ![r] = "Err"]
              /\ pc' = [pc EXCEPT ![r] = "panicked"]
              /\ table' = table \ ItemsAt(table, Decoded(r).crate_name, Decoded(r).vers)
    /\ UNCHANGED <<body, put_result, status_code, response, db_ops, responder_vars>>

\* A crate write whose failure is ignored: the handler returns all the same.
publish_crate_store_ignore_failure(r) ==
    /\ pc[r] = "store_crate"
    /\ \E stored \in BOOLEAN :
         IF stored
         THEN /\ storage' = store_crate(storage, Decoded(r).crate_name,
                                        Decoded(r).vers, Decoded(r).crate_bytes)
              /\ store_result' = [store_result EXCEPT ![r] = "Ok"]
         ELSE /\ storage' = storage
              /\ store_result' = [store_result EXCEPT ![r] = "Err"]
    /\ pc' = [pc EXCEPT ![r] = "done"]
    /\ UNCHANGED <<body, put_result, status_code, response, table, db_ops, responder_vars>>

\* Lines 72-78: the crate write, whatever the registration returned, then
\* the return of (status_code, Json(response)).  A failed write is an expect
\* on an Err: the task panics.
publish_crate_store(r) ==
    /\ pc[r] = "store_crate"
    /\ \E stored \in BOOLEAN :
         IF stored
         THEN /\ storage' = store_crate(storage, Decoded(r).crate_name,
                                        Decoded(r).vers, Decoded(r).crate_bytes)
              /\ store_result' = [store_result EXCEPT ![r] = "Ok"]
              /\ pc' = [pc EXCEPT ![r] = "done"]
         ELSE /\ storage' = storage
              /\ store_result' = [store_result EXCEPT ![r] = "Err"]
              /\ pc' = [pc EXCEPT ![r] = "panicked"]
    /\ UNCHANGED <<body, put_result, status_code, response, table, db_ops, responder_vars>>

Next ==
    \E r \in Requests :
        \/ publish_crate_decode(r)
        \/ publish_crate_register(r)
        \/ publish_crate_store(r)

Spec == Init /\ [][Next]_vars

\* ------------------------------------------------------- the responder

\* A handler of the application ends with one of the classified errors.
handler_returns_error(r) ==
    /\ app_error[r] = NoAppError
    /\ \E n \in NameBytes, v \in VersBytes :
         \E e \in {NonExistentPackageInfo(n), NonExistentCrateVersion(n, v),
                   DuplicateCrateVersion(n, v)} :
             app_error' = [app_error EXCEPT ![r] = e]
    /\ UNCHANGED <<app_response, publish_vars>>

\* A handler ends with a store driver or serializer error, converted by ?.
handler_converts_error(r) ==
    /\ app_error[r] = NoAppError
    /\ \E msg \in SdkErrorMessages \cup SerdeDynamoMessages :
         app_error' = [app_error EXCEPT ![r] = from_error(msg)]
    /\ UNCHANGED <<app_response, publish_vars>>

\* A handler ends with internal_error().
handler_returns_internal_error(r) ==
    /\ app_error[r] = NoAppError
    /\ app_error' = [app_error EXCEPT ![r] = internal_error]
    /\ UNCHANGED <<app_response, publish_vars>>

\* The framework turns the handler's error into the response.
respond(r) ==
    /\ app_error[r] # NoAppError
    /\ app_response[r] = NoAppResponse
    /\ app_response' = [app_response EXCEPT ![r] = into_response(app_error[r])]
    /\ UNCHANGED <<app_error, publish_vars>>

NextResponder ==
    \E r \in Requests :
        \/ handler_returns_error(r)
        \/ handler_converts_error(r)
        \/ handler_returns_internal_error(r)
        \/ respond(r)

SpecResponder == Init /\ [][NextResponder]_vars

\* ------------------------------------------------------------ vocabulary

Keys == NameBytes \X VersBytes

\* Request r was called and its body decoded to a package.
Accepted(r) == pc[r] # "idle" /\ Decoded(r).ok

KeyOf(r) == <<Decoded(r).crate_name, Decoded(r).vers>>

\* The requests that publish key k.
Publishers(k) == {r \in Requests : Accepted(r) /\ KeyOf(r) = k}

\* Request r is over: it returned a response or its task panicked.
Ended(r) == pc[r] \in {"done", "panicked"}

\* The caller of r holds the response (status_code, Json(response)).
Returned(r) == pc[r] = "done"

\* The body of r failed frame decoding: a length field or a segment is cut.
MalformedFrame(r) ==
    /\ pc[r] # "idle"
    /\ Decoded(r).panic \in {"read_u32 metadata_length", "read_exact metadata_bytes",
                             "read_u32 crate_length", "read_exact crate_bytes"}

\* The body of r failed metadata parsing.
InvalidMetadata(r) == pc[r] # "idle" /\ Decoded(r).panic = "from_slice metadata"

SuccessResponse(r) ==
    /\ Returned(r)
    /\ status_code[r] = OK
    /\ response[r].kind = "PublishSuccess"

\* A 400 failure response caused by the rejection of the conditional write.
DuplicateVersionFailure(r) ==
    /\ Returned(r)
    /\ put_result[r] = ConditionalCheckFailed
    /\ status_code[r] = BAD_REQUEST
    /\ response[r].kind = "PublishFailure"

\* No store failed on request r.
StoresAvailableFor(r) == put_result[r] # DispatchFailure /\ store_result[r] # "Err"

\* ---------------------------------------------------------------- claims

\* C1: when every request that publishes a key has ended and no store failed
\* on any of them, exactly one of them holds a success response and every
\* other one a DuplicateVersion failure (400, from the rejected conditional
\* write), whatever the interleaving of their writes was.
C1_ExactlyOneSuccess ==
    \A k \in Keys :
        LET G == Publishers(k)
        IN (/\ G # {}
            /\ \A r \in G : Ended(r) /\ StoresAvailableFor(r))
           => /\ Cardinality({r \in G : SuccessResponse(r)}) = 1
              /\ \A r \in G : SuccessResponse(r) \/ DuplicateVersionFailure(r)

\* Every request published the same key, and all of them ran to their
\* response with the stores available.
C1_Witness ==
    /\ \E k \in Keys : Publishers(k) = Requests
    /\ \A r \in Requests : Returned(r) /\ StoresAvailableFor(r)
    /\ \E r \in Requests : DuplicateVersionFailure(r)

\* C2: a persisted item is never changed, replaced or removed: in every step
\* each item of the table is still the one item stored under its key.
C2_RecordsImmutable ==
    [][\A it \in table : ItemsAt(table', it.pk, it.sk) = {it}]_vars

\* A request whose archive differs from the registered one (so its record
\* would carry another checksum) had its write rejected.
C2_Witness ==
    \E r \in Requests :
        /\ put_result[r] = ConditionalCheckFailed
        /\ \E it \in ItemsAt(table, KeyOf(r)[1], KeyOf(r)[2]) :
               it.info.cksum # Decoded(r).checksum

\* C3 (as claimed): a request invokes store_crate only after its own
\* registration write reported success.
C3_BlobWriteOnlyAfterRegistration ==
    \A r \in Requests : store_result[r] # "none" => put_result[r] = PutOk

\* C4 (as claimed): every key that holds a blob in the crate storage holds an
\* item in the registration store.
C4_NoOrphanedBlob ==
    \A k \in DOMAIN storage : ItemsAt(table, k[1], k[2]) # {}

\* C5: no step of a request whose body fails frame decoding or metadata
\* parsing changes the registration store or the crate storage.
C5_BadInputTouchesNoStore ==
    [][\A r \in Requests :
          (pc'[r] # pc[r] /\ ~DecodeBody(body'[r]).ok)
              => (table' = table /\ storage' = storage)]_vars

\* One request was cut inside a segment and another carried a malformed
\* metadata document; both are over.
C5_Witness ==
    /\ \E r \in Requests : Ended(r) /\ MalformedFrame(r)
    /\ \E r \in Requests : Ended(r) /\ InvalidMetadata(r)

\* C6 (as claimed): a request with a malformed frame ends with a 400 failure
\* response returned to its caller.
C6_MalformedFrameResponse ==
    \A r \in Requests :
        MalformedFrame(r)
            => /\ Returned(r)
               /\ status_code[r] = BAD_REQUEST
               /\ response[r].kind = "PublishFailure"

\* C7: when the registration write of a request succeeded and its crate
\* write failed, the item the request wrote is still in the table.
C7_RegistrationNotRolledBack ==
    \A r \in Requests :
        (put_result[r] = PutOk /\ store_result[r] = "Err")
            => ItemOf(PackageInfoOf(r)) \in table

\* A registered key without a blob: the registration succeeded, the crate
\* write failed and nothing is stored under the key.
C7_Witness ==
    \E r \in Requests :
        /\ put_result[r] = PutOk
        /\ store_result[r] = "Err"
        /\ KeyOf(r) \notin DOMAIN storage

\* C8 (as claimed): when the crate write fails after a successful
\* registration the caller gets a 500 response.
C8_BlobFailureIsServerError ==
    \A r \in Requests :
        (put_result[r] = PutOk /\ store_result[r] = "Err")
            => /\ Returned(r)
               /\ status_code[r] = INTERNAL_SERVER_ERROR
               /\ response[r].kind = "PublishFailure"

\* C9 (as claimed): a request whose key was already registered ends with a
\* 400 failure whose detail is the "already exists" message for its key, and
\* the table holds one item for the key.
C9_DuplicateResponse ==
    \A r \in Requests :
        (Returned(r) /\ put_result[r] = ConditionalCheckFailed)
            => /\ status_code[r] = BAD_REQUEST
               /\ response[r].kind = "PublishFailure"
               /\ response[r].detail
                    = DuplicateCrateVersionDisplay(KeyOf(r)[1], KeyOf(r)[2])
               /\ Cardinality(ItemsAt(table, KeyOf(r)[1], KeyOf(r)[2])) = 1

\* C10 (as claimed): a registration write that failed for another reason
\* than an occupied key is reported with status 500.
C10_StoreUnavailableIsServerError ==
    \A r \in Requests :
        (Returned(r) /\ put_result[r] = DispatchFailure)
            => status_code[r] = INTERNAL_SERVER_ERROR

\* C11: a request that submitted the frame of (name, version) with archive
\* B, whose registration was accepted and which returned, holds status 200
\* and a success response with no warnings, and the table holds one item for
\* the key: the submitted name and version with the digest of B.
C11_SuccessfulPublish ==
    \A r \in Requests : \A m \in GoodMetadata : \A a \in Archives :
        (/\ pc[r] # "idle"
         /\ body[r] = EncodeFrame(m, a)
         /\ Returned(r)
         /\ put_result[r] = PutOk)
            => /\ status_code[r] = OK
               /\ response[r] = PublishSuccess(<<>>)
               /\ ItemsAt(table, m[1], m[2])
                    = {ItemOf([name |-> m[1], vers |-> m[2], cksum |-> Sha256Hex(a)])}

\* A request published a non-empty archive into the empty table and
\* returned its success response.
C11_Witness ==
    \E r \in Requests :
        /\ Returned(r)
        /\ put_result[r] = PutOk
        /\ body[r] \in GoodFrames
        /\ Decoded(r).crate_bytes # <<>>
        /\ Cardinality(table) = 1

C15_TrailingBytesTolerated ==
    \A r \in Requests : \A f \in GoodFrames : \A t \in {<<0>>} :
        (pc[r] # "idle" /\ body[r] = f \o t)
            => /\ Decoded(r).ok
               /\ Decoded(r) = DecodeBody(f)
               /\ pc[r] # "panicked" \/ store_result[r] = "Err"

\* A request whose body had a trailing byte was registered and returned its
\* success response.
C15_Witness ==
    \E r \in Requests :
        /\ body[r] \in TrailingFrames
        /\ SuccessResponse(r)
        /\ put_result[r] = PutOk

\* C17 (as claimed): for every key that holds an item and a blob, the item's
\* checksum is the digest of the stored blob bytes.
C17_ChecksumMatchesBlob ==
    \A k \in DOMAIN storage :
        \A it \in ItemsAt(table, k[1], k[2]) : it.info.cksum = Sha256Hex(storage[k])

\* C18: a request that returned status 200 had its registration write and
\* its crate write both succeed: the item it built is in the table and a
\* blob is stored under its key.
C18_SuccessMeansBothWrites ==
    \A r \in Requests :
        (Returned(r) /\ status_code[r] = OK)
            => /\ put_result[r] = PutOk
               /\ store_result[r] = "Ok"
               /\ ItemOf(PackageInfoOf(r)) \in table
               /\ KeyOf(r) \in DOMAIN storage

\* One request returned 200 while another one, whose crate write failed,
\* ended without a response.
C18_Witness ==
    /\ \E r \in Requests : Returned(r) /\ status_code[r] = OK
    /\ \E r \in Requests : store_result[r] = "Err" /\ put_result[r] = PutOk

\* C13 (as claimed): a failure of the store driver reaches the caller as the
\* opaque detail "unexpected error".
C13_InternalDetailOpaque ==
    \A r \in Requests :
        (Returned(r) /\ put_result[r] = DispatchFailure)
            => response[r].detail.text = "unexpected error"

\* C16: a request sends at most one operation to the registration store,
\* and that operation is the put of its key under the condition that the key
\* is absent; no read and no unconditional write is ever sent.
C16_SingleConditionalPut ==
    \A r \in Requests :
        /\ Len(db_ops[r]) <= 1
        /\ \A i \in DOMAIN db_ops[r] :
               /\ db_ops[r][i].op = "PutItem"
               /\ db_ops[r][i].condition = "attribute_not_exists(sk)"
               /\ <<db_ops[r][i].pk, db_ops[r][i].sk>> = KeyOf(r)
        /\ put_result[r] # "none" => Len(db_ops[r]) = 1

\* Every request has sent its one conditional put for the same key, and one
\* of them was rejected.
C16_Witness ==
    /\ \A r \in Requests : Len(db_ops[r]) = 1 /\ KeyOf(r) = KeyOf(1)
    /\ \E r \in Requests : put_result[r] = ConditionalCheckFailed

\* C12: the response made of an error has status 400 for
\* DuplicateCrateVersion, 404 for NonExistentPackageInfo and
\* NonExistentCrateVersion and 500 for every other kind, and its payload is
\* an errors list of one element holding the error's detail.
C12_StatusMapping ==
    \A r \in Requests :
        app_response[r] # NoAppResponse
            => /\ app_response[r].status_code =
                    (IF app_error[r].variant = "DuplicateCrateVersion" THEN 400
                     ELSE IF app_error[r].variant \in {"NonExistentPackageInfo",
                                                       "NonExistentCrateVersion"} THEN 404
                     ELSE 500)
               /\ Len(app_response[r].payload.errors) = 1
               /\ app_response[r].payload.errors[1].detail = AppErrorDisplay(app_error[r])

\* A duplicate-version error and a converted driver error have both been
\* answered.
C12_Witness ==
    /\ \E r \in Requests :
          /\ app_error[r].variant = "DuplicateCrateVersion"
          /\ app_response[r].status_code = 400
    /\ \E r \in Requests :
          /\ app_error[r].variant = "Other"
          /\ app_response[r].status_code = 500

====
